---- MODULE Spec2Model ----
(***************************************************************************)
(* A model of the dmerge/demerge repository:                               *)
(*   - demerge.reduce.reduce: two path checks, three external scripts run  *)
(*     one after another in a temporary directory, and a final glob;       *)
(*   - merge_function: load_obsinst, create_bintablehdu,                   *)
(*     get_maskid_corresp, Tlos_model and calibrate_to_power.              *)
(***************************************************************************)
EXTENDS Integers, Sequences, FiniteSets, TLC

(***************************************************************************)
(* Bounds of the model.                                                    *)
(***************************************************************************)
MaxCalls == 2

MaxNameLen == 5

MaxLines == 4

NumKeys == 2

MaxKid == 2

MaxT == 2

(***************************************************************************)
(* Shared helpers.                                                         *)
(***************************************************************************)
None == "None"

Range(s) == {s[i] : i \in 1..Len(s)}

SeqsUpTo(S, n) == UNION {[1..k -> S] : k \in 0..n}

(***************************************************************************)
(*                     demerge/reduce/__init__.py                          *)
(***************************************************************************)
VARIABLES
    dataExists,   \* the data directories that exist on disk
    fs,           \* output directory -> whether it is present, and its entries
    tmpdirs,      \* the temporary directories that exist on disk
    pc,           \* position of the reduce call
    calls,        \* number of reduce calls made so far
    data_dir,     \* argument of the current call
    output_dir,   \* argument of the current call
    work_dir,     \* the TemporaryDirectory of the current call, or None
    running,      \* the external scripts running now
    launched,     \* scripts launched by the current call: [script, cwd], in order
    statuses,     \* exit statuses of the finished scripts of the current call
    outcome,      \* None, "returned" or the exception raised
    result,       \* the returned path: <<directory, entry>>, or None
    fs0,          \* fs when the current call began
    made          \* output directories that a finished call caused to exist

reduceVars == <<dataExists, fs, tmpdirs, pc, calls, data_dir, output_dir,
                work_dir, running, launched, statuses, outcome, result, fs0, made>>

\* merge_function.py: load_obsinst
VARIABLES
    obsinst,      \* the file name given, as a sequence of characters
    obsfile,      \* the lines of the file
    obs_pc,       \* position of the load_obsinst call
    opened,       \* whether open(obsinst, 'r') has been executed
    env,          \* the local variables of load_obsinst, and which are bound
    obs_out,      \* None, "returned" or the exception raised
    obs_ret       \* the returned dictionary

obsVars == <<obsinst, obsfile, obs_pc, opened, env, obs_out, obs_ret>>

\* merge_function.py: create_bintablehdu
VARIABLES
    hd,           \* the argument: five dictionaries, each a sequence of items
    hdu_pc,       \* position of the create_bintablehdu call
    hdu_out,      \* None, "returned" or the exception raised
    hdu           \* the HDU built: header cards and columns

hduVars == <<hd, hdu_pc, hdu_out, hdu>>

\* merge_function.py: get_maskid_corresp and calibrate_to_power
VARIABLES
    ddb,          \* the detector database: KIDFILT, KIDDES, KIDRESP
    pixelid,      \* argument of both functions
    kid_pc,       \* position of the get_maskid_corresp call
    kid_out,      \* None, "returned" or the exception raised
    kid_ret,      \* the five returned lists
    consulted,    \* the master ids looked up in KIDDES
    rhdus,        \* the reduced FITS: READOUT and KIDSINFO
    cal_pc,       \* position of the calibrate_to_power call
    cal_out,      \* None, "returned" or the exception raised
    cal_ret       \* the returned array, a sequence of rows

kidVars == <<ddb, pixelid, kid_pc, kid_out, kid_ret, consulted>>

calVars == <<rhdus, cal_pc, cal_out, cal_ret>>

mergeVars == <<obsVars, hduVars, kidVars, calVars>>

vars == <<reduceVars, mergeVars>>

\* The state of a function that is not called.
ObsIdle ==
    /\ obsinst = <<>>
    /\ obsfile = <<>>
    /\ obs_pc = "idle"
    /\ opened = FALSE
    /\ env = <<>>
    /\ obs_out = None
    /\ obs_ret = <<>>

HduIdle ==
    /\ hd = <<>>
    /\ hdu_pc = "idle"
    /\ hdu_out = None
    /\ hdu = <<>>

KidIdle ==
    /\ kid_pc = "idle"
    /\ kid_out = None
    /\ kid_ret = <<>>
    /\ consulted = {}

CalIdle ==
    /\ rhdus = <<>>
    /\ cal_pc = "idle"
    /\ cal_out = None
    /\ cal_ret = <<>>

DdbIdle ==
    /\ ddb = <<>>
    /\ pixelid = 0

DataDirs == {"cosmos_1", "cosmos_2"}
OutDirs == {"output_1", "output_2"}
TmpNames == {"tmp_a", "tmp_b"}

\* Names of directory entries, cut into the parts the glob pattern looks at.
Entries == { <<"reduced_", "1", ".fits">>,
             <<"reduced_", "2", ".fits">>,
             <<"kids", ".list">> }

\* SCRIPTS / "Configure.py", SCRIPTS / "FitSweep.py", SCRIPTS / "SaveFits.py"
SCRIPTS == <<"Configure.py", "FitSweep.py", "SaveFits.py">>

ExitStatuses == {0, 1}

\* A path that names nothing, and the directories a path may name.
Absent == [present |-> FALSE, entries |-> {}]

DirStates == {Absent} \cup {[present |-> TRUE, entries |-> es] : es \in SUBSET Entries}

\* Path.exists()
Exists(dir) == fs[dir].present

\* pathlib's match of one entry name against "reduced_*.fits"
GlobMatch(name) ==
    /\ Len(name) >= 2
    /\ name[1] = "reduced_"
    /\ name[Len(name)] = ".fits"

\* output_dir.glob("reduced_*.fits"): nothing when the directory is absent
Glob(dir) ==
    IF ~Exists(dir) THEN {} ELSE {e \in fs[dir].entries : GlobMatch(e)}

ReduceIdle ==
    /\ dataExists = {}
    /\ fs = [o \in OutDirs |-> Absent]
    /\ tmpdirs = {}
    /\ pc = "idle"
    /\ calls = MaxCalls
    /\ data_dir = None
    /\ output_dir = None
    /\ work_dir = None
    /\ running = {}
    /\ launched = <<>>
    /\ statuses = <<>>
    /\ outcome = None
    /\ result = None
    /\ fs0 = fs
    /\ made = {}

ReduceInit ==
    /\ dataExists \in SUBSET DataDirs
    /\ fs \in [OutDirs -> DirStates]
    /\ tmpdirs = {}
    /\ pc = "idle"
    /\ calls = 0
    /\ data_dir = None
    /\ output_dir = None
    /\ work_dir = None
    /\ running = {}
    /\ launched = <<>>
    /\ statuses = <<>>
    /\ outcome = None
    /\ result = None
    /\ fs0 = fs
    /\ made = {}

\* reduce(data_dir, output_dir) is called.
Call(d, o) ==
    /\ pc \in {"idle", "done"}
    /\ calls < MaxCalls
    /\ calls' = calls + 1
    /\ data_dir' = d
    /\ output_dir' = o
    /\ pc' = "check_data"
    /\ work_dir' = None
    /\ launched' = <<>>
    /\ statuses' = <<>>
    /\ outcome' = None
    /\ result' = None
    /\ fs0' = fs
    /\ UNCHANGED <<mergeVars, dataExists, fs, tmpdirs, running, made>>

\* The call ends: by a return or by an exception.
Finish(how, path) ==
    /\ pc' = "done"
    /\ outcome' = how
    /\ result' = path
    /\ made' = made \cup {o \in OutDirs : ~fs0[o].present /\ Exists(o)}

\* Mutant of CheckDataDir: the existence of data_dir is not checked.
CheckDataDirUnchecked ==
    /\ pc = "check_data"
    /\ pc' = "check_output"
    /\ UNCHANGED <<mergeVars, dataExists, fs, tmpdirs, calls, data_dir, output_dir,
                   work_dir, running, launched, statuses, fs0, outcome,
                   result, made>>

\* if not data_dir.exists(): raise FileNotFoundError(data_dir)
CheckDataDir ==
    /\ pc = "check_data"
    /\ IF data_dir \notin dataExists
         THEN Finish("FileNotFoundError", None)
         ELSE /\ pc' = "check_output"
              /\ UNCHANGED <<outcome, result, made>>
    /\ UNCHANGED <<mergeVars, dataExists, fs, tmpdirs, calls, data_dir, output_dir,
                   work_dir, running, launched, statuses, fs0>>

\* Mutant of CheckOutputDir: an existing output_dir is accepted.
CheckOutputDirExistOk ==
    /\ pc = "check_output"
    /\ pc' = "enter_with"
    /\ UNCHANGED <<mergeVars, dataExists, fs, tmpdirs, calls, data_dir, output_dir,
                   work_dir, running, launched, statuses, fs0, outcome,
                   result, made>>

\* if output_dir.exists(): raise FileExistsError(output_dir)
CheckOutputDir ==
    /\ pc = "check_output"
    /\ IF Exists(output_dir)
         THEN Finish("FileExistsError", None)
         ELSE /\ pc' = "enter_with"
              /\ UNCHANGED <<outcome, result, made>>
    /\ UNCHANGED <<mergeVars, dataExists, fs, tmpdirs, calls, data_dir, output_dir,
                   work_dir, running, launched, statuses, fs0>>

\* with TemporaryDirectory() as work_dir: a directory that did not exist is made
EnterWith ==
    /\ pc = "enter_with"
    /\ \E t \in TmpNames \ tmpdirs :
         /\ tmpdirs' = tmpdirs \cup {t}
         /\ work_dir' = t
    /\ pc' = "run"
    /\ UNCHANGED <<mergeVars, dataExists, fs, calls, data_dir, output_dir, running,
                   launched, statuses, outcome, result, fs0, made>>

\* Mutant of Launch: the child is started and not waited for (Popen).
LaunchNoWait ==
    /\ pc = "run"
    /\ Len(launched) < Len(SCRIPTS)
    /\ LET s == SCRIPTS[Len(launched) + 1] IN
         /\ launched' = Append(launched, [script |-> s, cwd |-> work_dir])
         /\ running' = running \cup {s}
    /\ pc' = IF Len(launched) + 1 < Len(SCRIPTS) THEN "run" ELSE "wait"
    /\ UNCHANGED <<mergeVars, dataExists, fs, tmpdirs, calls, data_dir, output_dir,
                   work_dir, statuses, outcome, result, fs0, made>>

\* run(["python", SCRIPTS / ...], cwd=work_dir, capture_output=True): the child
\* starts, and run() blocks until it ends.
Launch ==
    /\ pc = "run"
    /\ Len(launched) < Len(SCRIPTS)
    /\ LET s == SCRIPTS[Len(launched) + 1] IN
         /\ launched' = Append(launched, [script |-> s, cwd |-> work_dir])
         /\ running' = running \cup {s}
    /\ pc' = "wait"
    /\ UNCHANGED <<mergeVars, dataExists, fs, tmpdirs, calls, data_dir, output_dir,
                   work_dir, statuses, outcome, result, fs0, made>>

\* What a running script may do to the output directory: the scripts are
\* opaque, so they may create the directory and write any entry into it.
ScriptMkdir ==
    /\ pc = "wait"
    /\ running # {}
    /\ ~Exists(output_dir)
    /\ fs' = [fs EXCEPT ![output_dir] = [present |-> TRUE, entries |-> {}]]
    /\ UNCHANGED <<mergeVars, dataExists, tmpdirs, pc, calls, data_dir, output_dir,
                   work_dir, running, launched, statuses, outcome, result,
                   fs0, made>>

ScriptWrite ==
    /\ pc = "wait"
    /\ running # {}
    /\ Exists(output_dir)
    /\ \E e \in Entries \ fs[output_dir].entries :
         fs' = [fs EXCEPT ![output_dir].entries = @ \cup {e}]
    /\ UNCHANGED <<mergeVars, dataExists, tmpdirs, pc, calls, data_dir, output_dir,
                   work_dir, running, launched, statuses, outcome, result,
                   fs0, made>>

\* The child ends with some exit status; run() returns a CompletedProcess and
\* the status is not looked at (no check=True).
ScriptExit ==
    /\ pc = "wait"
    /\ \E s \in running, st \in ExitStatuses :
         /\ running' = running \ {s}
         /\ statuses' = Append(statuses, st)
    /\ pc' = IF Len(launched) < Len(SCRIPTS) THEN "run" ELSE "exit_with"
    /\ UNCHANGED <<mergeVars, dataExists, fs, tmpdirs, calls, data_dir, output_dir,
                   work_dir, launched, outcome, result, fs0, made>>

\* Mutant of ExitWith: the directory is left behind (mkdtemp, no cleanup).
ExitWithNoCleanup ==
    /\ pc = "exit_with"
    /\ pc' = "glob"
    /\ UNCHANGED <<mergeVars, dataExists, fs, tmpdirs, calls, data_dir, output_dir,
                   work_dir, running, launched, statuses, outcome, result,
                   fs0, made>>

\* The with-block ends: TemporaryDirectory.cleanup() removes work_dir.
ExitWith ==
    /\ pc = "exit_with"
    /\ tmpdirs' = tmpdirs \ {work_dir}
    /\ pc' = "glob"
    /\ UNCHANGED <<mergeVars, dataExists, fs, calls, data_dir, output_dir, work_dir,
                   running, launched, statuses, outcome, result, fs0, made>>

\* Mutant of Return: the pattern matches every entry (glob("*")).
ReturnAnyEntry ==
    /\ pc = "glob"
    /\ IF ~Exists(output_dir) \/ fs[output_dir].entries = {}
         THEN Finish("IndexError", None)
         ELSE \E e \in fs[output_dir].entries :
                 Finish("returned", <<output_dir, e>>)
    /\ UNCHANGED <<mergeVars, dataExists, fs, tmpdirs, calls, data_dir, output_dir,
                   work_dir, running, launched, statuses, fs0>>

\* return list(output_dir.glob("reduced_*.fits"))[0]: the order of the glob is
\* the directory's, so the first match is any match; no match: IndexError.
Return ==
    /\ pc = "glob"
    /\ IF Glob(output_dir) = {}
         THEN Finish("IndexError", None)
         ELSE \E e \in Glob(output_dir) : Finish("returned", <<output_dir, e>>)
    /\ UNCHANGED <<mergeVars, dataExists, fs, tmpdirs, calls, data_dir, output_dir,
                   work_dir, running, launched, statuses, fs0>>

Init ==
    /\ ReduceInit
    /\ ObsIdle /\ HduIdle /\ KidIdle /\ CalIdle /\ DdbIdle

Next ==
    \/ \E d \in DataDirs, o \in OutDirs : Call(d, o)
    \/ CheckDataDir
    \/ CheckOutputDir
    \/ EnterWith
    \/ Launch
    \/ ScriptMkdir
    \/ ScriptWrite
    \/ ScriptExit
    \/ ExitWith
    \/ Return

Spec == Init /\ [][Next]_vars

(***************************************************************************)
(* Properties of reduce.                                                   *)
(***************************************************************************)
InCall == pc # "idle"

PassedChecks ==
    \/ pc \in {"enter_with", "run", "wait", "exit_with", "glob"}
    \/ pc = "done" /\ outcome \in {"returned", "IndexError"}

LaunchedScripts == [i \in 1..Len(launched) |-> launched[i].script]

\* C1: when data_dir does not exist the call raises FileNotFoundError, and it
\* never gets past the data_dir check: no script is launched and no temporary
\* directory is created, whether or not output_dir exists.
C1_MissingDataDir ==
    (InCall /\ data_dir \notin dataExists) =>
        /\ pc \in {"check_data", "done"}
        /\ launched = <<>>
        /\ running = {}
        /\ work_dir = None
        /\ tmpdirs = {}
        /\ pc = "done" => outcome = "FileNotFoundError"

C1_Witness ==
    /\ pc = "done"
    /\ data_dir \notin dataExists
    /\ Exists(output_dir)
    /\ outcome = "FileNotFoundError"

\* C2 as claimed: with data_dir and output_dir both existing the call raises
\* FileExistsError, launches nothing and leaves the directories unchanged; and
\* every call on an output_dir that an earlier call caused to exist fails with
\* FileExistsError.
C2_AsClaimed ==
    pc = "done" =>
        /\ (data_dir \in dataExists /\ fs0[output_dir].present) =>
               /\ outcome = "FileExistsError"
               /\ launched = <<>>
               /\ fs = fs0
        /\ (output_dir \in made /\ fs0[output_dir].present) =>
               outcome = "FileExistsError"

\* C2 amended: as claimed, except that a call on an output_dir that an earlier
\* call caused to exist fails with FileExistsError when its data_dir exists and
\* with FileNotFoundError when it does not.
C2_OutputDirExists ==
    pc = "done" =>
        /\ (data_dir \in dataExists /\ fs0[output_dir].present) =>
               /\ outcome = "FileExistsError"
               /\ launched = <<>>
               /\ fs = fs0
        /\ (output_dir \in made /\ fs0[output_dir].present) =>
               /\ outcome = IF data_dir \in dataExists
                              THEN "FileExistsError"
                              ELSE "FileNotFoundError"
               /\ launched = <<>>
               /\ fs = fs0

C2_Witness ==
    /\ pc = "done"
    /\ calls = 2
    /\ data_dir \in dataExists
    /\ output_dir \in made
    /\ fs0[output_dir].present
    /\ fs0[output_dir].entries # {}
    /\ outcome = "FileExistsError"

\* C3 as claimed: a call with data_dir existing and output_dir absent always
\* returns a path inside output_dir that matches reduced_*.fits and names an
\* existing entry, whatever the scripts did.
C3_AsClaimed ==
    (pc = "done" /\ data_dir \in dataExists /\ ~fs0[output_dir].present) =>
        /\ outcome = "returned"
        /\ result[1] = output_dir
        /\ GlobMatch(result[2])
        /\ result[2] \in fs[output_dir].entries

\* C3 amended: such a call returns a path inside output_dir that matches
\* reduced_*.fits and names an existing entry when the scripts left at least
\* one such entry in output_dir, and raises IndexError when they left none.
C3_ReturnsReducedFits ==
    (pc = "done" /\ data_dir \in dataExists /\ ~fs0[output_dir].present) =>
        IF \E e \in fs[output_dir].entries : GlobMatch(e)
          THEN /\ outcome = "returned"
               /\ result[1] = output_dir
               /\ GlobMatch(result[2])
               /\ result[2] \in fs[output_dir].entries
          ELSE outcome = "IndexError"

C3_Witness ==
    /\ pc = "done"
    /\ data_dir \in dataExists
    /\ ~fs0[output_dir].present
    /\ outcome = "returned"
    /\ Cardinality(Glob(output_dir)) = 2
    /\ \E st \in Range(statuses) : st # 0

\* C7: a call that passes both checks launches Configure.py, FitSweep.py and
\* SaveFits.py, once each and in this order, never two at a time, each after
\* the one before it has ended, whatever the exit statuses.
C7_ThreeScriptsInOrder ==
    /\ Cardinality(running) <= 1
    /\ Len(launched) <= Len(SCRIPTS)
    /\ LaunchedScripts = SubSeq(SCRIPTS, 1, Len(launched))
    /\ Len(launched) = Len(statuses) + Cardinality(running)
    /\ running # {} => running = {launched[Len(launched)].script}
    /\ (PassedChecks /\ pc \in {"exit_with", "glob", "done"}) =>
           /\ LaunchedScripts = SCRIPTS
           /\ Len(statuses) = Len(SCRIPTS)
    /\ ~PassedChecks => launched = <<>>

C7_Witness ==
    /\ pc = "done"
    /\ LaunchedScripts = SCRIPTS
    /\ statuses = <<1, 1, 0>>

\* While the scripts are launched and run, work_dir exists and is the working
\* directory of each of them; when the call has ended no temporary directory
\* is left.
C8_TempDirState ==
    /\ pc \in {"run", "wait", "exit_with"} =>
           /\ work_dir \in tmpdirs
           /\ \A i \in 1..Len(launched) : launched[i].cwd = work_dir
    /\ running # {} => pc = "wait"
    /\ pc = "done" =>
           /\ tmpdirs = {}
           /\ \A i \in 1..Len(launched) : launched[i].cwd = work_dir
           /\ PassedChecks => Len(launched) = Len(SCRIPTS) /\ work_dir # None

\* work_dir is bound to a directory made in that step, before any launch, and
\* it is removed only after the three scripts have ended.
C8_TempDirStep ==
    /\ (work_dir' # work_dir /\ work_dir' # None) =>
           /\ work_dir' \notin tmpdirs
           /\ work_dir' \in tmpdirs'
           /\ launched' = <<>>
    /\ (work_dir \in tmpdirs /\ work_dir \notin tmpdirs') =>
           /\ running = {}
           /\ Len(statuses) = Len(SCRIPTS)

\* C8: the three scripts run in one temporary directory that did not exist
\* before the call made it; it exists from before Configure.py starts until
\* SaveFits.py has ended, and is gone when reduce returns or raises, also when
\* the lookup of reduced_*.fits fails.
C8_TempDirLifetime == []C8_TempDirState /\ [][C8_TempDirStep]_vars

C8_Witness ==
    /\ pc = "done"
    /\ outcome = "IndexError"
    /\ work_dir # None
    /\ work_dir \notin tmpdirs
    /\ Len(launched) = Len(SCRIPTS)

(***************************************************************************)
(*                  merge_function.py: load_obsinst                        *)
(***************************************************************************)
\* A string is a sequence of characters; a run of characters that no
\* operation of load_obsinst looks into is written as one element.
Chars == {".", "o", "b", "s", "x"}

DotObs == <<".", "o", "b", "s">>

\* '.obs' in obsinst
Contains(str, sub) ==
    \E i \in 1..(Len(str) - Len(sub) + 1) :
        \A j \in 1..Len(sub) : str[i + j - 1] = sub[j]

\* str.strip(chars)
RECURSIVE LStrip(_, _)
LStrip(str, chars) ==
    IF str = <<>> \/ Head(str) \notin chars THEN str ELSE LStrip(Tail(str), chars)

RECURSIVE RStrip(_, _)
RStrip(str, chars) ==
    IF str = <<>> \/ str[Len(str)] \notin chars
      THEN str
      ELSE RStrip(SubSeq(str, 1, Len(str) - 1), chars)

Strip(str, chars) == RStrip(LStrip(str, chars), chars)

\* str.split(sep), sep a single character
RECURSIVE Split(_, _)
Split(str, sep) ==
    IF \A i \in 1..Len(str) : str[i] # sep
      THEN <<str>>
      ELSE LET i == CHOOSE k \in 1..Len(str) :
                        str[k] = sep /\ \A m \in 1..(k - 1) : str[m] # sep
           IN  <<SubSeq(str, 1, i - 1)>> \o Split(SubSeq(str, i + 1, Len(str)), sep)

\* float(c): the numerals of the model and their values; anything else is a
\* ValueError.
NumVal == [n \in {"83", "22", "10"} |-> IF n = "83" THEN 83 ELSE IF n = "22" THEN 22 ELSE 10]

IsFloat(c) == Len(c) = 1 /\ c[1] \in DOMAIN NumVal

Float(c) == NumVal[c[1]]

\* The substrings load_obsinst looks for in a line, in the order of its
\* if/elif chain.
PATTERNS == << "SET ANTENNA_G TRK_TYPE", "SET ANTENNA_G SRC_NAME",
               "SET ANTENNA_G SRC_POS", "SET ANTENNA_G EPOCH",
               "SET DES OBS_USER" >>

\* A line: the patterns it contains and its last word, line.split()[-1].
Line(pats, tok) == [pats |-> pats, tok |-> tok]

Lines ==
    { Line({PATTERNS[1]}, <<"'", "RADEC", "'">>),
      Line({PATTERNS[1]}, <<"'", "AZEL", "'">>),
      Line({PATTERNS[2]}, <<"'", "M1", "'">>),
      Line({PATTERNS[3]}, <<"(", "83", ",", "22", ")">>),
      Line({PATTERNS[3]}, <<"(", "10", ",", "83", ")">>),
      Line({PATTERNS[3]}, <<"(", "22", ")">>),
      Line({PATTERNS[3]}, <<"(", "deg", ",", "22", ")">>),
      Line({PATTERNS[4]}, <<"'", "B", "1950", "'">>),
      Line({PATTERNS[5]}, <<"'", "ueda", "'">>),
      Line({}, <<"#">>) }

\* The branch of the if/elif chain a line takes: 0 when none.
Branch(line) ==
    IF \A k \in 1..Len(PATTERNS) : PATTERNS[k] \notin line.pats
      THEN 0
      ELSE CHOOSE k \in 1..Len(PATTERNS) :
               /\ PATTERNS[k] \in line.pats
               /\ \A m \in 1..(k - 1) : PATTERNS[m] \notin line.pats

PyInt(v) == [type |-> "int", val |-> v]

PyStr(v) == [type |-> "str", val |-> v]

\* The locals before the loop: only equinox is bound (equinox = 2000).
Env0 ==
    [ bound |-> {"equinox"}, trktype |-> <<>>, obs_object |-> <<>>,
      srcpos |-> <<>>, equinox |-> PyInt(<<"2000">>), observer |-> <<>>,
      raised |-> None ]

\* Mutant of LoopBody: a setting already bound is not assigned again.
LoopBodyFirstWins(e, line) ==
    LET b == Branch(line) IN
    IF b = 1 /\ "trktype" \notin e.bound THEN
        [e EXCEPT !.trktype = Strip(line.tok, {"'"}), !.bound = @ \cup {"trktype"}]
    ELSE IF b = 2 /\ "obs_object" \notin e.bound THEN
        [e EXCEPT !.obs_object = Strip(line.tok, {"'"}), !.bound = @ \cup {"obs_object"}]
    ELSE IF b = 3 /\ "srcpos" \notin e.bound THEN
        LET cs == Split(Strip(line.tok, {"(", ")"}), ",") IN
        IF \A i \in 1..Len(cs) : IsFloat(cs[i])
          THEN [e EXCEPT !.srcpos = [i \in 1..Len(cs) |-> Float(cs[i])],
                         !.bound = @ \cup {"srcpos"}]
          ELSE [e EXCEPT !.raised = "ValueError"]
    ELSE IF b = 4 /\ e.equinox.type = "int" THEN
        [e EXCEPT !.equinox = PyStr(Strip(line.tok, {"'", "J", "B"}))]
    ELSE IF b = 5 /\ "observer" \notin e.bound THEN
        [e EXCEPT !.observer = Strip(line.tok, {"'"}), !.bound = @ \cup {"observer"}]
    ELSE e

\* One pass of "for line in f": the if/elif chain.
LoopBody(e, line) ==
    LET b == Branch(line) IN
    IF b = 1 THEN
        [e EXCEPT !.trktype = Strip(line.tok, {"'"}), !.bound = @ \cup {"trktype"}]
    ELSE IF b = 2 THEN
        [e EXCEPT !.obs_object = Strip(line.tok, {"'"}), !.bound = @ \cup {"obs_object"}]
    ELSE IF b = 3 THEN
        LET cs == Split(Strip(line.tok, {"(", ")"}), ",") IN
        IF \A i \in 1..Len(cs) : IsFloat(cs[i])
          THEN [e EXCEPT !.srcpos = [i \in 1..Len(cs) |-> Float(cs[i])],
                         !.bound = @ \cup {"srcpos"}]
          ELSE [e EXCEPT !.raised = "ValueError"]
    ELSE IF b = 4 THEN
        [e EXCEPT !.equinox = PyStr(Strip(line.tok, {"'", "J", "B"}))]
    ELSE IF b = 5 THEN
        [e EXCEPT !.observer = Strip(line.tok, {"'"}), !.bound = @ \cup {"observer"}]
    ELSE e

\* The whole loop: it ends at the first exception.
RECURSIVE Loop(_, _)
Loop(e, lines) ==
    IF lines = <<>> \/ e.raised # None
      THEN e
      ELSE Loop(LoopBody(e, Head(lines)), Tail(lines))

\* The statements after the loop: the exception they raise, or None.
AfterLoopRaises(e) ==
    IF "trktype" \notin e.bound THEN "UnboundLocalError"
    ELSE IF e.trktype = <<"RADEC">> /\ "srcpos" \notin e.bound THEN "UnboundLocalError"
    ELSE IF e.trktype = <<"RADEC">> /\ Len(e.srcpos) < 2 THEN "IndexError"
    ELSE IF "observer" \notin e.bound THEN "UnboundLocalError"
    ELSE IF "obs_object" \notin e.bound THEN "UnboundLocalError"
    ELSE None

\* The dictionary returned.
ObsDict(e) ==
    [ observer |-> e.observer,
      obs_object |-> e.obs_object,
      ra |-> IF e.trktype = <<"RADEC">> THEN e.srcpos[1] ELSE 0,
      dec |-> IF e.trktype = <<"RADEC">> THEN e.srcpos[2] ELSE 0,
      equinox |-> e.equinox ]

\* Mutant of ObsCheck: the name must end with '.obs'.
ObsCheckEndsWith ==
    /\ obs_pc = "check"
    /\ IF ~(Len(obsinst) >= Len(DotObs) /\
            SubSeq(obsinst, Len(obsinst) - Len(DotObs) + 1, Len(obsinst)) = DotObs)
         THEN obs_pc' = "done" /\ obs_out' = "ValueError"
         ELSE obs_pc' = "open" /\ obs_out' = obs_out
    /\ UNCHANGED <<obsinst, obsfile, opened, env, obs_ret>>
    /\ UNCHANGED <<reduceVars, hduVars, kidVars, calVars>>

\* if not '.obs' in obsinst: raise ValueError(...)
ObsCheck ==
    /\ obs_pc = "check"
    /\ IF ~Contains(obsinst, DotObs)
         THEN obs_pc' = "done" /\ obs_out' = "ValueError"
         ELSE obs_pc' = "open" /\ obs_out' = obs_out
    /\ UNCHANGED <<obsinst, obsfile, opened, env, obs_ret>>
    /\ UNCHANGED <<reduceVars, hduVars, kidVars, calVars>>

\* with open(obsinst, 'r') as f: equinox = 2000; for line in f: ...
ObsRead ==
    /\ obs_pc = "open"
    /\ opened' = TRUE
    /\ env' = Loop(Env0, obsfile)
    /\ IF env'.raised # None
         THEN obs_pc' = "done" /\ obs_out' = env'.raised
         ELSE obs_pc' = "after_loop" /\ obs_out' = obs_out
    /\ UNCHANGED <<obsinst, obsfile, obs_ret>>
    /\ UNCHANGED <<reduceVars, hduVars, kidVars, calVars>>

\* if trktype == 'RADEC': ... else: ...; return {...}
ObsReturn ==
    /\ obs_pc = "after_loop"
    /\ obs_pc' = "done"
    /\ IF AfterLoopRaises(env) # None
         THEN obs_out' = AfterLoopRaises(env) /\ obs_ret' = obs_ret
         ELSE obs_out' = "returned" /\ obs_ret' = ObsDict(env)
    /\ UNCHANGED <<obsinst, obsfile, opened, env>>
    /\ UNCHANGED <<reduceVars, hduVars, kidVars, calVars>>

\* File names: every string over Chars up to MaxNameLen, read with two sample
\* files; files: every sequence of up to MaxLines lines, under one name.
SampleFiles ==
    { <<>>,
      << Line({PATTERNS[1]}, <<"'", "RADEC", "'">>),
         Line({PATTERNS[2]}, <<"'", "M1", "'">>),
         Line({PATTERNS[3]}, <<"(", "deg", ",", "22", ")">>) >> }

SampleName == <<"x", ".", "o", "b", "s">>

ObsInit ==
    /\ \/ obsinst \in SeqsUpTo(Chars, MaxNameLen) /\ obsfile \in SampleFiles
       \/ obsinst = SampleName /\ obsfile \in SeqsUpTo(Lines, MaxLines)
    /\ obs_pc = "check"
    /\ opened = FALSE
    /\ env = Env0
    /\ obs_out = None
    /\ obs_ret = <<>>

NextObs == ObsCheck \/ ObsRead \/ ObsReturn

InitObs ==
    /\ ObsInit
    /\ ReduceIdle /\ HduIdle /\ KidIdle /\ CalIdle /\ DdbIdle

SpecObs == InitObs /\ [][NextObs]_vars

(***************************************************************************)
(* Properties of load_obsinst.                                             *)
(***************************************************************************)
\* C4: a name without '.obs' raises ValueError before the file is opened; a
\* name with '.obs' raises no ValueError in the name check.
C4_NameCheck ==
    LET hasDotObs == \E i \in 1..Len(obsinst) :
                         /\ i + 3 <= Len(obsinst)
                         /\ obsinst[i] = "." /\ obsinst[i + 1] = "o"
                         /\ obsinst[i + 2] = "b" /\ obsinst[i + 3] = "s"
    IN  /\ ~hasDotObs =>
            /\ ~opened
            /\ obs_pc \in {"check", "done"}
            /\ obs_pc = "done" => obs_out = "ValueError"
        /\ hasDotObs =>
            /\ obs_pc # "check" => opened \/ obs_pc = "open"
            /\ obs_out = "ValueError" => opened

C4_Witness ==
    /\ obs_pc = "done"
    /\ obsinst = <<"x", "o", "b", "s", ".">>
    /\ obs_out = "ValueError"
    /\ ~opened

C4_WitnessAccepted ==
    /\ obs_pc = "done"
    /\ obsinst = <<".", "o", "b", "s", "x">>
    /\ opened

\* What the file says, read off the lines without running the loop.
HasLine(k) == \E i \in 1..Len(obsfile) : PATTERNS[k] \in obsfile[i].pats

LastLine(k) ==
    obsfile[CHOOSE i \in 1..Len(obsfile) :
                /\ PATTERNS[k] \in obsfile[i].pats
                /\ \A j \in (i + 1)..Len(obsfile) : PATTERNS[k] \notin obsfile[j].pats]

Unquoted(tok) == SubSeq(tok, 2, Len(tok) - 1)

PosFields(tok) ==
    LET inner == Unquoted(tok)
    IN  [i \in 1..((Len(inner) + 1) \div 2) |-> inner[2 * i - 1]]

PosNumeric(tok) == \A i \in 1..Len(PosFields(tok)) : PosFields(tok)[i] \in DOMAIN NumVal

AllPosNumeric ==
    \A i \in 1..Len(obsfile) : PATTERNS[3] \in obsfile[i].pats => PosNumeric(obsfile[i].tok)

IsRaDec == HasLine(1) /\ Unquoted(LastLine(1).tok) = <<"RADEC">>

WellFormedObs ==
    /\ HasLine(1) /\ HasLine(2) /\ HasLine(5)
    /\ AllPosNumeric
    /\ IsRaDec => HasLine(3) /\ Len(PosFields(LastLine(3).tok)) >= 2

ObsResultAsSpecified ==
    /\ obs_out = "returned"
    /\ DOMAIN obs_ret = {"observer", "obs_object", "ra", "dec", "equinox"}
    /\ IF IsRaDec
         THEN /\ obs_ret.ra = NumVal[PosFields(LastLine(3).tok)[1]]
              /\ obs_ret.dec = NumVal[PosFields(LastLine(3).tok)[2]]
         ELSE obs_ret.ra = 0 /\ obs_ret.dec = 0
    /\ ~HasLine(4) => obs_ret.equinox = PyInt(<<"2000">>)
    /\ obs_ret.observer = Unquoted(LastLine(5).tok)
    /\ obs_ret.obs_object = Unquoted(LastLine(2).tok)

\* C10 as claimed: every readable '.obs' file yields the dictionary, with ra,
\* dec, equinox and the last occurrences as stated.
C10_AsClaimed ==
    (obs_pc = "done" /\ opened) => ObsResultAsSpecified

\* C10 amended: the dictionary is returned, as stated, for the files that set
\* TRK_TYPE, SRC_NAME and OBS_USER, whose SRC_POS lines hold only numbers, and
\* that give two SRC_POS numbers when the tracking type is RADEC; any other
\* file makes the call raise.
C10_WellFormedFile ==
    (obs_pc = "done" /\ opened) =>
        IF WellFormedObs
          THEN ObsResultAsSpecified
          ELSE obs_out \in {"UnboundLocalError", "ValueError", "IndexError"}

C10_Witness ==
    /\ obs_pc = "done"
    /\ obs_out = "returned"
    /\ Len(obsfile) = 4
    /\ IsRaDec
    /\ obs_ret.ra = 10 /\ obs_ret.dec = 83
    /\ obs_ret.equinox = PyInt(<<"2000">>)

C10_WitnessLastWins ==
    /\ obs_pc = "done"
    /\ obs_out = "returned"
    /\ obsfile[1] = Line({PATTERNS[1]}, <<"'", "RADEC", "'">>)
    /\ obsfile[2] = Line({PATTERNS[1]}, <<"'", "AZEL", "'">>)
    /\ obs_ret.ra = 0

(***************************************************************************)
(*               merge_function.py: create_bintablehdu                     *)
(***************************************************************************)
\* A dictionary is the sequence of its items, in insertion order, with no key
\* twice. Keywords and column names are numbered.
Item(k, v) == [key |-> k, val |-> v]

KeyNames == 1..NumKeys

Dicts(V) ==
    { d \in SeqsUpTo({Item(k, v) : k \in KeyNames, v \in V}, NumKeys) :
          \A i, j \in 1..Len(d) : d[i].key = d[j].key => i = j }

HdrValues == {"v1", "v2"}
HdrComments == {"c1", "c2"}
ColArrays == {"array"}
ColFormats == {"E", "D"}
ColUnits == {"K", "Hz"}

Min(a, b) == IF a <= b THEN a ELSE b

KeysOf(d) == [i \in 1..Len(d) |-> d[i].key]

\* header[key] = value, comment: the card of that keyword is updated, or a new
\* card is appended.
SetCard(header, key, value, comment) ==
    IF \E n \in 1..Len(header) : header[n].key = key
      THEN [n \in 1..Len(header) |->
               IF header[n].key = key
                 THEN [key |-> key, value |-> value, comment |-> comment]
                 ELSE header[n]]
      ELSE Append(header, [key |-> key, value |-> value, comment |-> comment])

\* for (i, j) in zip(hd['hdr_vals'].items(), hd['hdr_coms'].items()):
\*     header[i[0]] = i[1], j[1]
RECURSIVE FillHeader(_, _, _, _)
FillHeader(header, vals, coms, n) ==
    IF n > Min(Len(vals), Len(coms))
      THEN header
      ELSE FillHeader(SetCard(header, vals[n].key, vals[n].val, coms[n].val),
                      vals, coms, n + 1)

\* The list of fits.Column built from the zip of the three column dictionaries.
Columns(vals, form, unit) ==
    [n \in 1..Min(Len(vals), Min(Len(form), Len(unit))) |->
        [name |-> vals[n].key, format |-> form[n].val,
         array |-> vals[n].val, unit |-> unit[n].val]]

\* hdu.header.comments[key] = comment: KeyError when the header has no such
\* keyword. h.raised says whether a KeyError was raised.
SetComment(h, key, comment) ==
    IF \A n \in 1..Len(h.cards) : h.cards[n].key # key
      THEN [h EXCEPT !.raised = TRUE]
      ELSE [h EXCEPT !.cards =
               [n \in 1..Len(h.cards) |->
                   IF h.cards[n].key = key
                     THEN [h.cards[n] EXCEPT !.comment = comment]
                     ELSE h.cards[n]]]

\* Mutant of FillComments: the comments are left as the zip paired them.
FillCommentsSkipped(h, coms, n) == h

\* for i in hd['hdr_coms'].items(): hdu.header.comments[i[0]] = i[1]
RECURSIVE FillComments(_, _, _)
FillComments(h, coms, n) ==
    IF n > Len(coms) \/ h.raised
      THEN h
      ELSE FillComments(SetComment(h, coms[n].key, coms[n].val), coms, n + 1)

\* create_bintablehdu(hd)
CreateBintableHdu ==
    /\ hdu_pc = "call"
    /\ hdu_pc' = "done"
    /\ LET header  == FillHeader(<<>>, hd.hdr_vals, hd.hdr_coms, 1)
           columns == Columns(hd.col_vals, hd.col_form, hd.col_unit)
           final   == FillComments([raised |-> FALSE, cards |-> header],
                                   hd.hdr_coms, 1)
       IN  IF final.raised
             THEN hdu_out' = "KeyError" /\ hdu' = hdu
             ELSE /\ hdu_out' = "returned"
                  /\ hdu' = [header |-> final.cards, columns |-> columns]
    /\ UNCHANGED hd
    /\ UNCHANGED <<reduceVars, obsVars, kidVars, calVars>>

\* The arguments: every pair of header dictionaries with one set of column
\* dictionaries, and every triple of column dictionaries with one pair of
\* header dictionaries.
SampleHdr ==
    [hdr_vals |-> <<Item(1, "v1")>>, hdr_coms |-> <<Item(1, "c1")>>]

SampleCol ==
    [col_vals |-> <<Item(1, "array")>>, col_form |-> <<Item(1, "E")>>,
     col_unit |-> <<Item(1, "K")>>]

HdArg(h, c) ==
    [hdr_vals |-> h.hdr_vals, hdr_coms |-> h.hdr_coms, col_vals |-> c.col_vals,
     col_form |-> c.col_form, col_unit |-> c.col_unit]

HduInit ==
    /\ \/ \E v \in Dicts(HdrValues), c \in Dicts(HdrComments) :
             hd = HdArg([hdr_vals |-> v, hdr_coms |-> c], SampleCol)
       \/ \E v \in Dicts(ColArrays), f \in Dicts(ColFormats), u \in Dicts(ColUnits) :
             hd = HdArg(SampleHdr, [col_vals |-> v, col_form |-> f, col_unit |-> u])
    /\ hdu_pc = "call"
    /\ hdu_out = None
    /\ hdu = [header |-> <<>>, columns |-> <<>>]

InitHdu ==
    /\ HduInit
    /\ ReduceIdle /\ ObsIdle /\ KidIdle /\ CalIdle /\ DdbIdle

NextHdu == CreateBintableHdu

SpecHdu == InitHdu /\ [][NextHdu]_vars

(***************************************************************************)
(* Properties of create_bintablehdu.                                       *)
(***************************************************************************)
HduAsSpecified ==
    /\ hdu_out = "returned"
    /\ \A i \in 1..Len(hd.hdr_vals) :
         \E n \in 1..Len(hdu.header) :
            /\ hdu.header[n].key = hd.hdr_vals[i].key
            /\ hdu.header[n].value = hd.hdr_vals[i].val
            /\ \A j \in 1..Len(hd.hdr_coms) :
                 hd.hdr_coms[j].key = hd.hdr_vals[i].key =>
                     hdu.header[n].comment = hd.hdr_coms[j].val
    /\ Len(hdu.columns) = Len(hd.col_vals)
    /\ \A i \in 1..Len(hd.col_vals) :
         \E n \in 1..Len(hdu.columns) :
            /\ hdu.columns[n].name = hd.col_vals[i].key
            /\ \A j \in 1..Len(hd.col_form) :
                 hd.col_form[j].key = hd.col_vals[i].key =>
                     hdu.columns[n].format = hd.col_form[j].val
            /\ \A j \in 1..Len(hd.col_unit) :
                 hd.col_unit[j].key = hd.col_vals[i].key =>
                     hdu.columns[n].unit = hd.col_unit[j].val

\* C9 as claimed: for every hd the header holds every key of hdr_vals with its
\* value and the comment hdr_coms gives for that key, and there is one column
\* per entry of col_vals with the format and unit given for its name.
C9_AsClaimed == hdu_pc = "done" => HduAsSpecified

\* C9 amended: the same, for every hd whose hdr_coms has the keys of hdr_vals
\* (in any order) and whose col_form and col_unit list the keys of col_vals
\* in the order of col_vals.
C9_MatchingDicts ==
    (/\ hdu_pc = "done"
     /\ Range(KeysOf(hd.hdr_coms)) = Range(KeysOf(hd.hdr_vals))
     /\ KeysOf(hd.col_form) = KeysOf(hd.col_vals)
     /\ KeysOf(hd.col_unit) = KeysOf(hd.col_vals)) => HduAsSpecified

C9_Witness ==
    /\ hdu_pc = "done"
    /\ hdu_out = "returned"
    /\ KeysOf(hd.hdr_vals) = <<1, 2>>
    /\ KeysOf(hd.hdr_coms) = <<2, 1>>
    /\ hd.hdr_coms[1].val # hd.hdr_coms[2].val
    /\ HduAsSpecified

(***************************************************************************)
(*   merge_function.py: get_maskid_corresp, Tlos_model, calibrate_to_power *)
(***************************************************************************)
PixelIds == {0}

KidIds == 0..(MaxKid - 1)

MasterIds == {0, 1}

Attributes == {"wideband", "filter", "blind", "Al", "NbTiN", "dark"}

\* A row of KIDFILT and a row of KIDDES.
FiltRow(k, m) ==
    [kidid |-> k, masterid |-> m, F_filter |-> <<350 + k, 5>>, Q_filter |-> <<500 + k, 10>>]

DesRow(m, a) == [masterid |-> m, attribute |-> a]

\* Tables with one row per key, in any order.
FiltTables ==
    { t \in SeqsUpTo({FiltRow(k, m) : k \in KidIds, m \in MasterIds \cup {-1}}, MaxKid) :
          \A i, j \in 1..Len(t) : t[i].kidid = t[j].kidid => i = j }

DesTables ==
    { t \in SeqsUpTo({DesRow(m, a) : m \in MasterIds, a \in Attributes},
                     Cardinality(MasterIds)) :
          \A i, j \in 1..Len(t) : t[i].masterid = t[j].masterid => i = j }

\* d[key] = value on a Python dict, kept as a function.
DictSet(d, key, value) ==
    [k \in DOMAIN d \cup {key} |-> IF k = key THEN value ELSE d[k]]

EmptyDict == [k \in {} |-> 0]

\* kiddict, as both functions build it: for (i, j, ...) in zip(...): kiddict[i] = j
RECURSIVE KidDict(_, _)
KidDict(rows, d) ==
    IF rows = <<>> THEN d
    ELSE KidDict(Tail(rows), DictSet(d, Head(rows).kidid, Head(rows).masterid))

\* kidfilt[i] = (k[0], l[0])
RECURSIVE KidFilt(_, _)
KidFilt(rows, d) ==
    IF rows = <<>> THEN d
    ELSE KidFilt(Tail(rows),
                 DictSet(d, Head(rows).kidid,
                         <<Head(rows).F_filter[1], Head(rows).Q_filter[1]>>))

\* kidname[i] = j over KIDDES
RECURSIVE KidName(_, _)
KidName(rows, d) ==
    IF rows = <<>> THEN d
    ELSE KidName(Tail(rows), DictSet(d, Head(rows).masterid, Head(rows).attribute))

\* The if/elif chain from kind to attr.
Attr(kind) ==
    IF kind = "wideband" THEN 0
    ELSE IF kind = "filter" THEN 1
    ELSE IF kind = "blind" THEN 2
    ELSE IF kind = "Al" THEN 3
    ELSE IF kind = "NbTiN" THEN 4
    ELSE -1

\* Mutant of IsUnknownMaster: master id 0 is taken for an unknown master.
IsUnknownMasterOrZero(masterid) == masterid <= 0

\* if masterid < 0
IsUnknownMaster(masterid) == masterid < 0

\* for i in range(nkid): ... over the five lists; a missing key ends the call
\* with KeyError. acc.looked holds the master ids looked up in kidname.
RECURSIVE MaskLoop(_, _, _, _, _, _)
MaskLoop(i, nkid, kiddict, kidfilt, kidname, acc) ==
    IF i >= nkid \/ acc.raised THEN acc
    ELSE IF i \notin DOMAIN kiddict THEN [acc EXCEPT !.raised = TRUE]
    ELSE LET masterid == kiddict[i] IN
         IF ~IsUnknownMaster(masterid) /\ masterid \notin DOMAIN kidname
           THEN [acc EXCEPT !.raised = TRUE, !.looked = @ \cup {masterid}]
           ELSE LET kind == IF IsUnknownMaster(masterid) THEN "unknown"
                            ELSE kidname[masterid]
                IN  MaskLoop(i + 1, nkid, kiddict, kidfilt, kidname,
                      [acc EXCEPT
                         !.masterids = Append(@, masterid),
                         !.kidids = Append(@, i),
                         !.kidtypes = Append(@, Attr(kind)),
                         !.kidfreqs = Append(@, kidfilt[i][1]),
                         !.kidQs = Append(@, kidfilt[i][2]),
                         !.looked = IF IsUnknownMaster(masterid) THEN @
                                    ELSE @ \cup {masterid}])

Lists0 ==
    [masterids |-> <<>>, kidids |-> <<>>, kidtypes |-> <<>>, kidfreqs |-> <<>>,
     kidQs |-> <<>>, looked |-> {}, raised |-> FALSE]

\* get_maskid_corresp(pixelid, ddb)
GetMaskidCorresp ==
    /\ kid_pc = "call"
    /\ kid_pc' = "done"
    /\ LET nkid == ddb.KIDFILT.header[pixelid]
           acc  == MaskLoop(0, nkid, KidDict(ddb.KIDFILT.data, EmptyDict),
                            KidFilt(ddb.KIDFILT.data, EmptyDict),
                            KidName(ddb.KIDDES, EmptyDict), Lists0)
       IN  /\ consulted' = acc.looked
           /\ IF acc.raised
                THEN kid_out' = "KeyError" /\ kid_ret' = kid_ret
                ELSE /\ kid_out' = "returned"
                     /\ kid_ret' = <<acc.masterids, acc.kidids, acc.kidtypes,
                                     acc.kidfreqs, acc.kidQs>>
    /\ UNCHANGED <<ddb, pixelid>>
    /\ UNCHANGED <<reduceVars, obsVars, hduVars, calVars>>

KidInit ==
    /\ pixelid \in PixelIds
    /\ \E n \in 0..MaxKid, f \in FiltTables, d \in DesTables :
         ddb = [KIDFILT |-> [header |-> [p \in PixelIds |-> n], data |-> f],
                KIDDES |-> d, KIDRESP |-> <<>>]
    /\ kid_pc = "call"
    /\ kid_out = None
    /\ kid_ret = <<>>
    /\ consulted = {}

InitKid ==
    /\ KidInit
    /\ ReduceIdle /\ ObsIdle /\ HduIdle /\ CalIdle

NextKid == GetMaskidCorresp

SpecKid == InitKid /\ [][NextKid]_vars

(***************************************************************************)
(* Properties of get_maskid_corresp.                                       *)
(***************************************************************************)
NKid == ddb.KIDFILT.header[pixelid]

FiltRowOf(i) == CHOOSE r \in Range(ddb.KIDFILT.data) : r.kidid = i

CodeOf(attribute) ==
    CASE attribute = "wideband" -> 0
      [] attribute = "filter"   -> 1
      [] attribute = "blind"    -> 2
      [] attribute = "Al"       -> 3
      [] attribute = "NbTiN"    -> 4
      [] OTHER                  -> -1

\* C6: the five lists have length nkid, kidids is 0..nkid-1, masterids[i] is
\* the master id KIDFILT gives for KID i, and kidtypes[i] is the code of that
\* master's KIDDES attribute, -1 for any other attribute and for a negative
\* master id, which is not looked up in KIDDES.
C6_MaskidCorresp ==
    (kid_pc = "done" /\ kid_out = "returned") =>
        /\ \A l \in 1..5 : Len(kid_ret[l]) = NKid
        /\ \A i \in 0..(NKid - 1) :
             /\ kid_ret[2][i + 1] = i
             /\ kid_ret[1][i + 1] = FiltRowOf(i).masterid
             /\ IF FiltRowOf(i).masterid < 0
                  THEN /\ kid_ret[3][i + 1] = -1
                       /\ FiltRowOf(i).masterid \notin consulted
                  ELSE \E r \in Range(ddb.KIDDES) :
                           /\ r.masterid = FiltRowOf(i).masterid
                           /\ kid_ret[3][i + 1] = CodeOf(r.attribute)

C6_Witness ==
    /\ kid_pc = "done"
    /\ kid_out = "returned"
    /\ NKid = 2
    /\ kid_ret[1] = <<-1, 0>>
    /\ kid_ret[3] = <<-1, 4>>
    /\ Len(ddb.KIDDES) = 1

(***************************************************************************)
(* Tlos_model and calibrate_to_power. The arithmetic is over the reals, so *)
(* a value is kept as the expression that computes it.                     *)
(***************************************************************************)
Num(n) == [num |-> n]

BinOp(op, a, b) == [op |-> op, a |-> a, b |-> b]

Sqrt(a) == [op |-> "sqrt", a |-> a]

NaN == [nan |-> TRUE]

DEFAULT_ROOM_T == 290

DEFAULT_AMB_T == 273

\* (dx + p0*np.sqrt(Troom+T0))**2 / (p0**2 * etaf) - T0/etaf - (1-etaf)/etaf*Tamb
Tlos_model(dx, p0, etaf, T0, Troom, Tamb) ==
    BinOp("-",
      BinOp("-",
        BinOp("/",
          BinOp("**", BinOp("+", dx, BinOp("*", p0, Sqrt(BinOp("+", Troom, T0)))), Num(2)),
          BinOp("*", BinOp("**", p0, Num(2)), etaf)),
        BinOp("/", T0, etaf)),
      BinOp("*", BinOp("/", BinOp("-", Num(1), etaf), etaf), Tamb))

\* np.array: the elements are computed once and stored.
Array(s) == SubSeq(s, 1, Len(s))

\* np.transpose of a matrix with at least one row
Transpose(m) ==
    LET a == Array(m)
    IN  Array([c \in 1..Len(a[1]) |-> Array([r \in 1..Len(a) |-> a[r][c]])])

\* Mutant of ReadoutColumn: the phase (index 1) is read instead of linPh.
ReadoutColumnPh(readout, i) ==
    Transpose([t \in 1..Len(readout.data) |-> readout.data[t][i + 1]])[2]

\* rhdus['READOUT'].data['Amp, Ph, linPh %d' %i].T[2]
ReadoutColumn(readout, i) ==
    Transpose([t \in 1..Len(readout.data) |-> readout.data[t][i + 1]])[3]

\* np.array((linphase - linyfc) / (4.*Qr)).T; linyfc and Qr have one entry per
\* column of linphase.
FShift(linphase, linyfc, Qr) ==
    Transpose([t \in 1..Len(linphase) |->
                  [i \in 1..Len(linphase[t]) |->
                      BinOp("/", BinOp("-", Num(linphase[t][i]), Num(linyfc[i])),
                                 BinOp("*", Num(4), Num(Qr[i])))]])

\* The loop "for i in range(nkid)" that fills Tsignal.
TSignal(nkid, kiddict, fshift, p0, etaf, T0, Troom, Tamb) ==
    [n \in 1..nkid |->
        IF IsUnknownMaster(kiddict[n - 1])
          THEN [j \in 1..Len(fshift[n]) |-> NaN]
          ELSE [j \in 1..Len(fshift[n]) |->
                   Tlos_model(fshift[n][j], Num(p0[n]), Num(etaf[n]), Num(T0[n]),
                              Num(Troom), Num(Tamb))]]

\* calibrate_to_power(pixelid, Troom, Tamb, rhdus, ddb)
CalibrateToPower(Troom, Tamb) ==
    /\ cal_pc = "call"
    /\ cal_pc' = "done"
    /\ LET nkid     == rhdus.READOUT.header[pixelid]
           kiddict  == KidDict(ddb.KIDFILT.data, EmptyDict)
           linphase == Transpose([n \in 1..nkid |-> ReadoutColumn(rhdus.READOUT, n - 1)])
           linyfc   == Transpose([k \in 1..Len(rhdus.KIDSINFO) |->
                                     rhdus.KIDSINFO[k].yfc_linyfc])[2]
           Qr       == Transpose([k \in 1..Len(rhdus.KIDSINFO) |->
                                     rhdus.KIDSINFO[k].Qr_dQr])[1]
           fshift   == FShift(linphase, linyfc, Qr)
           params   == Transpose([k \in 1..Len(ddb.KIDRESP) |->
                                     ddb.KIDRESP[k].cal_params])
           Tsignal  == TSignal(nkid, kiddict, fshift, params[1], params[2],
                               params[3], Troom, Tamb)
       IN  /\ cal_out' = "returned"
           /\ cal_ret' = Transpose(Tsignal)
    /\ UNCHANGED <<rhdus, ddb, pixelid>>
    /\ UNCHANGED <<reduceVars, obsVars, hduVars, kid_pc, kid_out, kid_ret, consulted>>

\* The KIDs of the model: what KIDSINFO, KIDRESP and KIDFILT say of one KID.
KidProfiles ==
    { [linyfc |-> 0, Qr |-> 2, cal |-> <<1, 2, 3>>, masterid |-> -1],
      [linyfc |-> 1, Qr |-> 3, cal |-> <<4, 5, 6>>, masterid |-> 0],
      [linyfc |-> 1, Qr |-> 2, cal |-> <<1, 5, 3>>, masterid |-> 1],
      [linyfc |-> 0, Qr |-> 3, cal |-> <<4, 2, 6>>, masterid |-> -1] }

\* One (Amp, Ph, linPh) of READOUT.
Samples == { <<7, 8, 0>>, <<7, 8, 1>> }

CalInit ==
    /\ pixelid \in PixelIds
    /\ \E T \in 1..MaxT, n \in 1..MaxKid :
         \E prof \in [1..n -> KidProfiles], data \in [1..T -> [1..n -> Samples]] :
            /\ rhdus = [ READOUT  |-> [header |-> [p \in PixelIds |-> n], data |-> data],
                         KIDSINFO |-> [k \in 1..n |->
                                          [yfc_linyfc |-> <<9, prof[k].linyfc>>,
                                           Qr_dQr |-> <<prof[k].Qr, 1>>]] ]
            /\ ddb = [ KIDFILT |-> [header |-> [p \in PixelIds |-> n],
                                    data |-> [k \in 1..n |-> FiltRow(k - 1, prof[k].masterid)]],
                       KIDDES |-> <<>>,
                       KIDRESP |-> [k \in 1..n |-> [cal_params |-> prof[k].cal]] ]
    /\ cal_pc = "call"
    /\ cal_out = None
    /\ cal_ret = <<>>

InitCal ==
    /\ CalInit
    /\ ReduceIdle /\ ObsIdle /\ HduIdle /\ KidIdle

NextCal == CalibrateToPower(DEFAULT_ROOM_T, DEFAULT_AMB_T)

SpecCal == InitCal /\ [][NextCal]_vars

(***************************************************************************)
(* Properties of calibrate_to_power.                                       *)
(***************************************************************************)
CalNKid == rhdus.READOUT.header[pixelid]

CalNTime == Len(rhdus.READOUT.data)

\* The entry the claim gives for timestamp t and KID i (from 0).
CalEntry(t, i) ==
    LET linPh  == rhdus.READOUT.data[t][i + 1][3]
        linyfc == rhdus.KIDSINFO[i + 1].yfc_linyfc[2]
        Qr     == rhdus.KIDSINFO[i + 1].Qr_dQr[1]
        cal    == ddb.KIDRESP[i + 1].cal_params
        dx     == BinOp("/", BinOp("-", Num(linPh), Num(linyfc)),
                             BinOp("*", Num(4), Num(Qr)))
    IN  Tlos_model(dx, Num(cal[1]), Num(cal[2]), Num(cal[3]),
                   Num(DEFAULT_ROOM_T), Num(DEFAULT_AMB_T))

\* C5: the result has one row per timestamp and one column per KID; the
\* column of a KID with a negative master id is all NaN, and any other entry
\* [t, i] is Tlos_model of (linPh[t,i] - linyfc[i]) / (4*Qr[i]) with the
\* calibration parameters of KID i, Troom and Tamb.
C5_CalibrateToPower ==
    cal_pc = "done" =>
        /\ cal_out = "returned"
        /\ Len(cal_ret) = CalNTime
        /\ \A t \in 1..CalNTime :
             /\ Len(cal_ret[t]) = CalNKid
             /\ \A i \in 0..(CalNKid - 1) :
                  cal_ret[t][i + 1] =
                      IF FiltRowOf(i).masterid < 0 THEN NaN ELSE CalEntry(t, i)

C5_Witness ==
    /\ cal_pc = "done"
    /\ CalNKid = 2 /\ CalNTime = 2
    /\ cal_ret[1][1] = NaN /\ cal_ret[2][1] = NaN
    /\ cal_ret[1][2] # NaN
    /\ cal_ret[1][2] # cal_ret[2][2]

====
